---- MODULE Spec2Model ----
(***************************************************************************)
(* Model of the StreamRelay durable object (src/deploy.sh, lines 31-267,   *)
(* the compiled StreamRelay class).  One relay instance, its viewer        *)
(* registry, its upstream (SFU) sockets, its reconnect timeout and its     *)
(* heartbeat interval.  Every handler of the class is one atomic action:   *)
(* the class has no await that suspends a handler in the middle            *)
(* (connectToSFU contains no await, so `await this.connectToSFU()` runs it *)
(* to completion before anything else is dispatched).                      *)
(*                                                                         *)
(* The environment is the WebSocket event model: an upstream socket is     *)
(* created "connecting"; it may deliver open (connecting -> open),         *)
(* message (while open), and it ends with one terminating event: error     *)
(* (a connecting or open socket fails) or close (an open socket is closed  *)
(* by the peer, or the close the relay asked for completes).  close()      *)
(* called by the relay puts a connecting/open socket in "closing"; its     *)
(* close event is delivered later.  The listeners stay attached to a       *)
(* socket for as long as it lives, whether or not the relay still holds    *)
(* it in this.sfuConnection.  A viewer socket likewise ends with one       *)
(* terminating event, error or close.  A send to a viewer socket either    *)
(* returns or throws; which one is an input of each send.                  *)
(*                                                                         *)
(* The worker's /stream/ route (src/unnamed/part_004) and the ChatRoom     *)
(* durable object (src/unnamed/part_001) are modelled in the same module,  *)
(* each with a specification of its own (RouterSpec, ChatSpec).            *)
(***************************************************************************)
EXTENDS Integers, Sequences, FiniteSets, TLC

\* ---- bounds of the model ----
\* total number of viewer sockets ever accepted (client ids are never reused)
MaxJoins == 3
\* number of upstream sockets that can be alive at the same time
MaxSockets == 2
\* total number of upstream message events
MaxFrames == 3
\* number of timer ids that can be live at the same time
MaxTimers == 2
\* the chat room: total number of sessions ever accepted
MaxSessions == 3
\* the chat room: total number of non-empty chat messages accepted
MaxChat == 3
\* the chat room: number of chat message handlers suspended at a storage
\* operation at the same time
MaxInFlight == 2
\* the chat room: the length the stored history is trimmed to (200 in the
\* source), scaled so that MaxChat messages overflow it
MaxHistory == 2
\* the chat room: how many stored messages a joining session is sent (50 in
\* the source), scaled below MaxHistory
MaxShown == 1

\* null of the id-valued fields (ids are 1, 2, ...)
NoId == 0
\* null of the tuple-valued fields (urls, cached frames)
Null == <<>>

ClientIds == 1..MaxJoins
SockIds == 1..MaxSockets
TimerIds == 1..MaxTimers
\* leading bytes an upstream frame can carry: 0 = video, 1 = audio, 2 = other
Bytes == {0, 1, 2}

\* the name the router gives the durable object: `stream:${streamId}`,
\* as its ":"-separated segments (a string field is a 1-tuple, null is <<>>)
ObjectName == <<"stream", "alpha">>
\* env.SFU_SERVER_URL: unset, or a ws url
EnvUrls == {Null, <<"ws", "sfu">>}
\* the chat room: session ids; NoSession is the default excludeId ""
SessionIds == 1..MaxSessions
NoSession == 0
\* `Guest-${sessionId.substring(0, 6)}`
Guest(id) == <<"Guest-", id>>
\* the Origin header of a request: absent, or scheme and host
Origins == {Null, <<"http", "edge">>}
\* what follows "/stream/" in the path of a request to the worker, as its
\* ":"-separated segments: "", "alpha", "beta", "alpha:beta", "beta:alpha"
StreamPaths == {<<"">>, <<"alpha">>, <<"beta">>, <<"alpha", "beta">>, <<"beta", "alpha">>}

VARIABLES
    streamId,            \* this.streamId
    sfuUrl,              \* this.sfuUrl
    currentWsUrl,        \* this.currentWsUrl
    clients,             \* this.clients: the Map's keys in insertion order
    sfuConnection,       \* this.sfuConnection: a socket id or NoId
    audioCodecDescription,
    videoCodecDescription,
    reconnectTimeout,    \* this.reconnectTimeout: a timer id or NoId
    heartbeatInterval,   \* this.heartbeatInterval: an interval id or NoId
    isConnectedToSFU,
    sock,                \* state of every upstream WebSocket object
    liveTimers,          \* setTimeout timers neither fired nor cleared
    liveIntervals,       \* setInterval intervals not cleared
    transport,           \* state of every viewer WebSocket (server end)
    nextClient,          \* number of viewer sockets accepted so far
    nextSeq,             \* number of upstream message events so far
    sent,                \* the sends attempted by the last handler, in order
    response,            \* what the last handler returned: <<"none">> (an event
                         \* handler), <<"101">>, <<"exception">>, the health record
                         \* or the worker's <<"400", ...>>
    requested,           \* the worker: what followed "/stream/" in the last request
    targetOf,            \* the worker: for each stream path, the url the relay
                         \* instance serving it connected to first, or Null
    sessions,            \* ChatRoom.sessions: the session ids, in array order
    messages,            \* the stored value of storage key "messages"
    stage,               \* where the fetch that accepted a session stands:
                         \* "none", "joining" (awaiting storage.get),
                         \* "listening" (listeners attached), "rejected" (threw)
    handler,             \* the chat message handler in flight for a session:
                         \* Null, <<"get", m>>, <<"put", m, list>>, <<"cast", m>>
    webSocket,           \* state of every session's WebSocket (server end)
    nextSession,         \* number of sessions accepted so far
    nextMessage,         \* number of non-empty chat messages accepted so far
    chatSent,            \* the sends attempted by the last chat handler, in order
    chatResponse         \* what the last chat handler returned

vars == <<streamId, sfuUrl, currentWsUrl, clients, sfuConnection,
          audioCodecDescription, videoCodecDescription, reconnectTimeout,
          heartbeatInterval, isConnectedToSFU, sock, liveTimers, liveIntervals,
          transport, nextClient, nextSeq, sent, response, requested, targetOf,
          sessions, messages, stage, handler, webSocket,
          nextSession, nextMessage, chatSent, chatResponse>>

\* the variables of the chat room
chatVars == <<sessions, messages, stage, handler, webSocket,
              nextSession, nextMessage, chatSent, chatResponse>>
\* the variables of the relay and of the worker's router
relayVars == <<streamId, sfuUrl, currentWsUrl, clients, sfuConnection,
               audioCodecDescription, videoCodecDescription, reconnectTimeout,
               heartbeatInterval, isConnectedToSFU, sock, liveTimers, liveIntervals,
               transport, nextClient, nextSeq, sent, response, requested, targetOf>>

\* ---- helpers ----
Min(S) == CHOOSE x \in S : \A y \in S : x <= y
Range(s) == {s[i] : i \in 1..Len(s)}
\* Map.delete(id) on the insertion-ordered key list
MapDelete(s, id) == SelectSeq(s, LAMBDA x : x # id)

\* state.id.name?.split(":")[1] ?? null
SplitSecond(name) == IF Len(name) >= 2 THEN <<name[2]>> ELSE Null
\* request.headers.get("Origin")?.replace("http", "ws"): the first "http" of
\* an origin is its scheme, so http -> ws and https -> wss
ReplaceHttpWs(origin) ==
    IF origin = Null THEN Null
    ELSE <<IF origin[1] = "http" THEN "ws" ELSE "wss", origin[2]>>
\* `${this.sfuUrl}/consume/${this.streamId}`
WsUrl(base, id) == <<base, "/consume/", id>>
\* new WebSocket(wsUrl) throws a SyntaxError when wsUrl is no absolute ws url,
\* which is the case exactly when sfuUrl is still null ("null/consume/...")
ConnectorThrows(base) == base = Null

\* the JSON status record (the timestamp is left out); a message text is the
\* tuple of its parts
StatusMessage(text, flag) == <<"status", text, flag>>
IsBinary(data) == data[1] = "binary"
Frame(byte, seq) == <<"binary", byte, seq>>


\* ---- the relay as one record, threaded through the nested calls ----
Cur ==
    [streamId |-> streamId, sfuUrl |-> sfuUrl, currentWsUrl |-> currentWsUrl,
     clients |-> clients, sfuConnection |-> sfuConnection,
     audioCodecDescription |-> audioCodecDescription,
     videoCodecDescription |-> videoCodecDescription,
     reconnectTimeout |-> reconnectTimeout,
     heartbeatInterval |-> heartbeatInterval,
     isConnectedToSFU |-> isConnectedToSFU, sock |-> sock,
     liveTimers |-> liveTimers, liveIntervals |-> liveIntervals,
     sent |-> <<>>, response |-> <<"none">>, overflow |-> FALSE]

Install(r) ==
    /\ ~r.overflow
    /\ streamId' = r.streamId
    /\ sfuUrl' = r.sfuUrl
    /\ currentWsUrl' = r.currentWsUrl
    /\ clients' = r.clients
    /\ sfuConnection' = r.sfuConnection
    /\ audioCodecDescription' = r.audioCodecDescription
    /\ videoCodecDescription' = r.videoCodecDescription
    /\ reconnectTimeout' = r.reconnectTimeout
    /\ heartbeatInterval' = r.heartbeatInterval
    /\ isConnectedToSFU' = r.isConnectedToSFU
    /\ sock' = r.sock
    /\ liveTimers' = r.liveTimers
    /\ liveIntervals' = r.liveIntervals
    /\ sent' = r.sent
    /\ response' = r.response
    /\ UNCHANGED <<requested, targetOf>>
    /\ UNCHANGED chatVars

\* WebSocket.close(): a connecting or open socket starts closing; on a socket
\* that already failed or closed it does nothing
SocketClose(socks, s) ==
    IF socks[s] \in {"connecting", "open"} THEN [socks EXCEPT ![s] = "closing"]
    ELSE socks

\* clearTimeout / clearInterval: the timer leaves the live set
ClearTimer(live, t) == live \ {t}

\* a handleClientDisconnect whose teardown also empties the init-frame slots
handleClientDisconnectForgetting(r, clientId) ==
    LET r1 == [r EXCEPT !.clients = MapDelete(@, clientId)]
    IN IF Len(r1.clients) = 0
       THEN [r1 EXCEPT
               !.sock = IF r1.sfuConnection # NoId
                        THEN SocketClose(@, r1.sfuConnection) ELSE @,
               !.sfuConnection = NoId,
               !.isConnectedToSFU = FALSE,
               !.liveTimers = IF r1.reconnectTimeout # NoId
                              THEN ClearTimer(@, r1.reconnectTimeout) ELSE @,
               !.reconnectTimeout = NoId,
               !.liveIntervals = IF r1.heartbeatInterval # NoId
                                 THEN ClearTimer(@, r1.heartbeatInterval) ELSE @,
               !.heartbeatInterval = NoId,
               !.audioCodecDescription = Null,
               !.videoCodecDescription = Null]
       ELSE r1

\* handleClientDisconnect(clientId)
handleClientDisconnect(r, clientId) ==
    LET r1 == [r EXCEPT !.clients = MapDelete(@, clientId)]
    IN IF Len(r1.clients) = 0
       THEN [r1 EXCEPT
               !.sock = IF r1.sfuConnection # NoId
                        THEN SocketClose(@, r1.sfuConnection) ELSE @,
               !.sfuConnection = NoId,
               !.isConnectedToSFU = FALSE,
               !.liveTimers = IF r1.reconnectTimeout # NoId
                              THEN ClearTimer(@, r1.reconnectTimeout) ELSE @,
               !.reconnectTimeout = NoId,
               !.liveIntervals = IF r1.heartbeatInterval # NoId
                                 THEN ClearTimer(@, r1.heartbeatInterval) ELSE @,
               !.heartbeatInterval = NoId]
       ELSE r1

\* client.send(data) on viewer socket id: the attempt is recorded, with
\* whether it returned (data delivered) or threw
Send(r, id, data, ok) ==
    [r EXCEPT !.sent = Append(@, <<id, data, ok>>)]

\* an index loop over an array of the keys: the index moves on although the
\* entries behind a deleted one have moved up
NextEntryIndexed(i, deleted) == i + 1

\* where the Map iterator stands after the entry at position i was visited:
\* a deleted entry leaves the list, so the next entry has moved to position i
NextEntry(i, deleted) == IF deleted THEN i ELSE i + 1

\* for (const [clientId, client] of this.clients.entries())
\*     try { client.send(data) } catch { this.handleClientDisconnect(clientId) }
\* from position i on; F holds the viewers whose send throws
RECURSIVE SendLoop(_, _, _, _)
SendLoop(r, i, data, F) ==
    IF i > Len(r.clients) THEN r
    ELSE LET id == r.clients[i]
             ok == id \notin F
             r1 == Send(r, id, data, ok)
             r2 == IF ok THEN r1 ELSE handleClientDisconnect(r1, id)
         IN SendLoop(r2, NextEntry(i, ~ok), data, F)

\* fanOutToClients(data)
fanOutToClients(r, data, F) == SendLoop(r, 1, data, F)

\* broadcastStatusToClients(message): the record is serialized once, with the
\* flag as it is before the loop
broadcastStatusToClients(r, message, F) ==
    SendLoop(r, 1, StatusMessage(message, r.isConnectedToSFU), F)

\* a sendStatusToClient(clientId, message) that sends nothing
sendStatusToClientSilent(r, clientId, message, ok) == r

\* a sendStatusToClient(clientId, message) whose catch block only logs
sendStatusToClientKeeping(r, clientId, message, ok) ==
    IF clientId \in Range(r.clients)
    THEN Send(r, clientId, StatusMessage(message, r.isConnectedToSFU), ok)
    ELSE r

\* sendStatusToClient(clientId, message)
sendStatusToClient(r, clientId, message, ok) ==
    IF clientId \in Range(r.clients)
    THEN LET r1 == Send(r, clientId,
                        StatusMessage(message, r.isConnectedToSFU), ok)
         IN IF ok THEN r1 ELSE handleClientDisconnect(r1, clientId)
    ELSE r

\* setTimeout / setInterval hand out an id that no live timer has
FreshTimer(live) == Min(TimerIds \ live)

\* scheduleReconnect() without the `this.reconnectTimeout === null` test
scheduleReconnectUnguarded(r) ==
    IF Len(r.clients) > 0
    THEN IF TimerIds \subseteq r.liveTimers
         THEN [r EXCEPT !.overflow = TRUE]
         ELSE LET t == FreshTimer(r.liveTimers)
              IN [r EXCEPT !.reconnectTimeout = t,
                           !.liveTimers = @ \cup {t}]
    ELSE r

\* a scheduleReconnect() that arms nothing
scheduleReconnectNever(r) == r

\* scheduleReconnect()
scheduleReconnect(r) ==
    IF Len(r.clients) > 0 /\ r.reconnectTimeout = NoId
    THEN IF TimerIds \subseteq r.liveTimers
         THEN [r EXCEPT !.overflow = TRUE]
         ELSE LET t == FreshTimer(r.liveTimers)
              IN [r EXCEPT !.reconnectTimeout = t,
                           !.liveTimers = @ \cup {t}]
    ELSE r

\* new WebSocket(wsUrl): a socket object that is not alive yet
FreeSockets(socks) == {s \in SockIds : socks[s] = "closed"}

\* connectToSFU() with a catch block that only logs
connectToSFUBareCatch(r, F) ==
    LET r1 == IF r.reconnectTimeout # NoId
              THEN [r EXCEPT !.liveTimers = ClearTimer(@, r.reconnectTimeout),
                             !.reconnectTimeout = NoId]
              ELSE r
        r2 == [r1 EXCEPT !.currentWsUrl = WsUrl(r1.sfuUrl, r1.streamId)]
    IN IF ConnectorThrows(r2.sfuUrl)
       THEN broadcastStatusToClients(r2, <<"Failed to connect to SFU">>, F)
       ELSE IF FreeSockets(r2.sock) = {}
       THEN [r2 EXCEPT !.overflow = TRUE]
       ELSE LET s == Min(FreeSockets(r2.sock))
            IN [r2 EXCEPT !.sfuConnection = s,
                          !.sock = [@ EXCEPT ![s] = "connecting"]]

\* connectToSFU(); F: the viewers whose send throws in the catch broadcast
connectToSFU(r, F) ==
    LET r1 == IF r.reconnectTimeout # NoId
              THEN [r EXCEPT !.liveTimers = ClearTimer(@, r.reconnectTimeout),
                             !.reconnectTimeout = NoId]
              ELSE r
        r2 == [r1 EXCEPT !.currentWsUrl = WsUrl(r1.sfuUrl, r1.streamId)]
    IN IF ConnectorThrows(r2.sfuUrl)
       THEN scheduleReconnect(
                broadcastStatusToClients(
                    [r2 EXCEPT !.isConnectedToSFU = FALSE],
                    <<"Failed to connect to SFU">>, F))
       ELSE IF FreeSockets(r2.sock) = {}
       THEN [r2 EXCEPT !.overflow = TRUE]
       ELSE LET s == Min(FreeSockets(r2.sock))
            IN [r2 EXCEPT !.sfuConnection = s,
                          !.sock = [@ EXCEPT ![s] = "connecting"]]

\* a startHeartbeat that arms a new interval and leaves the old one running
startHeartbeatLeaking(r) ==
    IF TimerIds \subseteq r.liveIntervals
    THEN [r EXCEPT !.overflow = TRUE]
    ELSE LET h == FreshTimer(r.liveIntervals)
         IN [r EXCEPT !.heartbeatInterval = h,
                      !.liveIntervals = @ \cup {h}]

\* startHeartbeat(): clearInterval of the old handle, then setInterval, which
\* returns a handle it has not handed out before (so never the one just
\* cleared)
startHeartbeat(r) ==
    IF TimerIds \subseteq r.liveIntervals
    THEN [r EXCEPT !.overflow = TRUE]
    ELSE LET h == FreshTimer(r.liveIntervals)
             live == IF r.heartbeatInterval # NoId
                     THEN ClearTimer(r.liveIntervals, r.heartbeatInterval)
                     ELSE r.liveIntervals
         IN [r EXCEPT !.heartbeatInterval = h,
                      !.liveIntervals = live \cup {h}]


\* ---- fetch(request) ----
\* the first lines of fetch with the Origin taken whenever the request has one
FetchPreambleOverwrite(r, origin, pathId) ==
    [r EXCEPT !.sfuUrl = IF ReplaceHttpWs(origin) # Null
                         THEN ReplaceHttpWs(origin) ELSE @,
              !.streamId = IF @ = Null THEN pathId ELSE @]

\* the lines every request runs first: the upstream address and the stream id
\* are taken from the request when they are still unset
FetchPreamble(r, origin, pathId) ==
    [r EXCEPT !.sfuUrl = IF @ = Null /\ ReplaceHttpWs(origin) # Null
                         THEN ReplaceHttpWs(origin) ELSE @,
              !.streamId = IF @ = Null THEN pathId ELSE @]

\* the late-joiner branch with the two sends in the other order
ReplayCodecsVideoFirst(r, id, okA, okV) ==
    LET r1 == Send(r, id, r.videoCodecDescription, okV)
    IN IF ~okV THEN [r1 EXCEPT !.response = <<"exception">>]
       ELSE LET r2 == Send(r1, id, r.audioCodecDescription, okA)
            IN IF ~okA THEN [r2 EXCEPT !.response = <<"exception">>]
               ELSE [r2 EXCEPT !.response = <<"101">>]

\* the late-joiner branch: server.send(audio); server.send(video), outside any
\* try/catch, so a send that throws ends the handler with that exception
ReplayCodecs(r, id, okA, okV) ==
    LET r1 == Send(r, id, r.audioCodecDescription, okA)
    IN IF ~okA THEN [r1 EXCEPT !.response = <<"exception">>]
       ELSE LET r2 == Send(r1, id, r.videoCodecDescription, okV)
            IN IF ~okV THEN [r2 EXCEPT !.response = <<"exception">>]
               ELSE [r2 EXCEPT !.response = <<"101">>]

\* an upgrade branch that replays whenever both slots are populated, without
\* looking at the connected flag
AcceptViewerReplayUnconnected(r, id, okStatus, F, okA, okV) ==
    LET r1 == [r EXCEPT !.clients = Append(@, id)]
        r2 == sendStatusToClient(r1, id, <<"Connected to stream relay">>, okStatus)
    IN IF Len(r2.clients) = 1
       THEN [startHeartbeat(connectToSFU(r2, F)) EXCEPT !.response = <<"101">>]
       ELSE IF /\ r2.audioCodecDescription # Null
               /\ r2.videoCodecDescription # Null
       THEN ReplayCodecs(r2, id, okA, okV)
       ELSE [r2 EXCEPT !.response = <<"101">>]

\* the websocket upgrade branch of fetch, for the new viewer socket id
AcceptViewer(r, id, okStatus, F, okA, okV) ==
    LET r1 == [r EXCEPT !.clients = Append(@, id)]
        r2 == sendStatusToClient(r1, id, <<"Connected to stream relay">>, okStatus)
    IN IF Len(r2.clients) = 1
       THEN [startHeartbeat(connectToSFU(r2, F)) EXCEPT !.response = <<"101">>]
       ELSE IF /\ r2.isConnectedToSFU
               /\ r2.audioCodecDescription # Null
               /\ r2.videoCodecDescription # Null
       THEN ReplayCodecs(r2, id, okA, okV)
       ELSE [r2 EXCEPT !.response = <<"101">>]

\* url.pathname.substring("/stream/".length) of the request the router
\* forwards to the object named `stream:${streamId}`: that same streamId
StreamPathTail == <<ObjectName[2]>>

\* a viewer's upgrade request at /stream/<streamId>
Join(origin, okStatus, F, okA, okV) ==
    /\ nextClient < MaxJoins
    /\ LET id == nextClient + 1
           r == AcceptViewer(FetchPreamble(Cur, origin, StreamPathTail),
                             id, okStatus, F, okA, okV)
       IN /\ Install(r)
          /\ nextClient' = id
          /\ transport' = [transport EXCEPT ![id] = "open"]
    /\ UNCHANGED nextSeq

\* the /health branch of fetch
HealthSnapshot(r) ==
    [r EXCEPT !.response = <<"ok", r.streamId, Len(r.clients), r.isConnectedToSFU>>]

\* a request at /health: "/health".substring("/stream/".length) is ""
Health(origin) ==
    /\ Install(HealthSnapshot(FetchPreamble(Cur, origin, <<"">>)))
    /\ UNCHANGED <<transport, nextClient, nextSeq>>

\* ---- events of a viewer socket ----
\* its "error" listener
ViewerError(c) ==
    /\ transport[c] = "open"
    /\ transport' = [transport EXCEPT ![c] = "closed"]
    /\ Install(handleClientDisconnect(Cur, c))
    /\ UNCHANGED <<nextClient, nextSeq>>

\* its "close" listener
ViewerClose(c) ==
    /\ transport[c] = "open"
    /\ transport' = [transport EXCEPT ![c] = "closed"]
    /\ Install(handleClientDisconnect(Cur, c))
    /\ UNCHANGED <<nextClient, nextSeq>>

\* ---- events of an upstream socket (the listeners set in connectToSFU) ----
\* an "open" listener that broadcasts without setting the flag
OnSfuOpenNoFlag(r, F) ==
    broadcastStatusToClients(r, <<"Connected to SFU server">>, F)

\* "open" listener
OnSfuOpen(r, F) ==
    broadcastStatusToClients([r EXCEPT !.isConnectedToSFU = TRUE],
                             <<"Connected to SFU server">>, F)

SfuOpen(s, F) ==
    /\ sock[s] = "connecting"
    /\ Install(OnSfuOpen([Cur EXCEPT !.sock = [@ EXCEPT ![s] = "open"]], F))
    /\ UNCHANGED <<transport, nextClient, nextSeq>>

\* the audio half of the "message" listener
CacheAudio(r, data, F) ==
    IF r.audioCodecDescription = Null
    THEN broadcastStatusToClients(
             [r EXCEPT !.audioCodecDescription = IF data[2] = 1 THEN data ELSE @],
             <<"Received audio codec information from SFU">>, F)
    ELSE r

\* the video half without the `!this.videoCodecDescription` test
CacheVideoOverwrite(r, data) ==
    IF data[2] = 0 THEN [r EXCEPT !.videoCodecDescription = data] ELSE r

\* the video half of the "message" listener
CacheVideo(r, data) ==
    IF r.videoCodecDescription = Null /\ data[2] = 0
    THEN [r EXCEPT !.videoCodecDescription = data]
    ELSE r

\* a "message" listener that forwards a frame when it caches it and then
\* forwards it again
OnSfuMessageTwice(r, data, F1, F2) ==
    LET r1 == CacheVideo(CacheAudio(r, data, F1), data)
        r2 == IF data \in {r1.audioCodecDescription, r1.videoCodecDescription}
              THEN fanOutToClients(r1, data, F2) ELSE r1
    IN fanOutToClients(r2, data, F2)

\* a "message" listener that keeps a frame it caches to itself
OnSfuMessageConsume(r, data, F1, F2) ==
    LET r1 == CacheVideo(CacheAudio(r, data, F1), data)
    IN IF data \in {r1.audioCodecDescription, r1.videoCodecDescription}
       THEN r1 ELSE fanOutToClients(r1, data, F2)

\* "message" listener; F1, F2: the viewers whose send throws in the status
\* broadcast and in the fan-out
OnSfuMessage(r, data, F1, F2) ==
    fanOutToClients(CacheVideo(CacheAudio(r, data, F1), data), data, F2)

SfuMessage(s, byte, F1, F2) ==
    /\ sock[s] = "open"
    /\ nextSeq < MaxFrames
    /\ nextSeq' = nextSeq + 1
    /\ Install(OnSfuMessage(Cur, Frame(byte, nextSeq + 1), F1, F2))
    /\ UNCHANGED <<transport, nextClient>>

\* "close" listener
OnSfuClose(r, F) ==
    scheduleReconnect(
        broadcastStatusToClients([r EXCEPT !.isConnectedToSFU = FALSE],
                                 <<"Disconnected from SFU, attempting to reconnect...">>, F))

SfuClose(s, F) ==
    /\ sock[s] \in {"open", "closing"}
    /\ Install(OnSfuClose([Cur EXCEPT !.sock = [@ EXCEPT ![s] = "closed"]], F))
    /\ UNCHANGED <<transport, nextClient, nextSeq>>

\* an "error" listener that schedules no reconnect
OnSfuErrorQuiet(r, F) ==
    broadcastStatusToClients([r EXCEPT !.isConnectedToSFU = FALSE],
                             <<"Error connecting to SFU">>, F)

\* "error" listener
OnSfuError(r, F) ==
    scheduleReconnect(
        broadcastStatusToClients([r EXCEPT !.isConnectedToSFU = FALSE],
                                 <<"Error connecting to SFU">>, F))

SfuError(s, F) ==
    /\ sock[s] \in {"connecting", "open"}
    /\ Install(OnSfuError([Cur EXCEPT !.sock = [@ EXCEPT ![s] = "closed"]], F))
    /\ UNCHANGED <<transport, nextClient, nextSeq>>

\* ---- timers ----
\* the setTimeout callback of scheduleReconnect: () => this.connectToSFU()
ReconnectFire(t, F) ==
    /\ t \in liveTimers
    /\ Install(connectToSFU([Cur EXCEPT !.liveTimers = @ \ {t}], F))
    /\ UNCHANGED <<transport, nextClient, nextSeq>>

\* a heartbeat callback that always reports the upstream as connected
OnHeartbeatAlwaysConnected(r, F) ==
    broadcastStatusToClients(r, <<"Connected to SFU, waiting for stream data...">>, F)

\* the setInterval callback of startHeartbeat
OnHeartbeat(r, F) ==
    broadcastStatusToClients(
        r,
        IF r.isConnectedToSFU
        THEN <<"Connected to SFU, waiting for stream data...">>
        ELSE <<"Not connected to SFU: ", r.currentWsUrl, ", attempting to connect...">>,
        F)

HeartbeatTick(h, F) ==
    /\ h \in liveIntervals
    /\ Install(OnHeartbeat(Cur, F))
    /\ UNCHANGED <<transport, nextClient, nextSeq>>

\* ---- the relay after its constructor ----
Init ==
    /\ streamId = SplitSecond(ObjectName)
    /\ sfuUrl \in EnvUrls
    /\ currentWsUrl = Null
    /\ clients = <<>>
    /\ sfuConnection = NoId
    /\ audioCodecDescription = Null
    /\ videoCodecDescription = Null
    /\ reconnectTimeout = NoId
    /\ heartbeatInterval = NoId
    /\ isConnectedToSFU = FALSE
    /\ sock = [s \in SockIds |-> "closed"]
    /\ liveTimers = {}
    /\ liveIntervals = {}
    /\ transport = [c \in ClientIds |-> "none"]
    /\ nextClient = 0
    /\ nextSeq = 0
    /\ sent = <<>>
    /\ response = <<"none">>
    /\ requested = Null
    /\ targetOf = [p \in StreamPaths |-> Null]
    /\ sessions = <<>>
    /\ messages = <<>>
    /\ stage = [c \in SessionIds |-> "none"]
    /\ handler = [c \in SessionIds |-> Null]
    /\ webSocket = [c \in SessionIds |-> "none"]
    /\ nextSession = 0
    /\ nextMessage = 0
    /\ chatSent = <<>>
    /\ chatResponse = <<"none">>

\* the viewers a send can throw for: any set of registered viewers.  In a join
\* the catch broadcast of connectToSFU goes to a single viewer (so none or all
\* throw) and is never made together with the replay, so one input decides
\* that broadcast and the first replay send.  The status broadcast of a
\* message event is made only while the audio slot is empty.
Failures == SUBSET Range(clients)

Next ==
    \/ \E origin \in Origins, okStatus \in BOOLEAN, okA \in BOOLEAN, okV \in BOOLEAN :
           Join(origin, okStatus, IF okA THEN {} ELSE ClientIds, okA, okV)
    \/ \E origin \in Origins : Health(origin)
    \/ \E c \in ClientIds : ViewerError(c)
    \/ \E c \in ClientIds : ViewerClose(c)
    \/ \E s \in SockIds, F \in Failures : SfuOpen(s, F)
    \/ \E s \in SockIds, byte \in Bytes, F2 \in Failures :
           \E F1 \in IF audioCodecDescription = Null THEN Failures ELSE {{}} :
               SfuMessage(s, byte, F1, F2)
    \/ \E s \in SockIds, F \in Failures : SfuClose(s, F)
    \/ \E s \in SockIds, F \in Failures : SfuError(s, F)
    \/ \E t \in TimerIds, F \in Failures : ReconnectFire(t, F)
    \/ \E h \in TimerIds, F \in Failures : HeartbeatTick(h, F)

Spec == Init /\ [][Next]_vars

\* ---- the relay under fair scheduling, for the reconnect liveness ----
\* The handlers that touch the upstream manager: joins, the /health request
\* (it can set sfuUrl), viewer socket ends, the upstream open, close and error
\* events, the reconnect timer and the heartbeat.  Upstream message events are
\* left out: a message handler changes the caches and, through a failed send,
\* the registry, which the status broadcasts of the other handlers do as well.
LiveNext ==
    \/ \E origin \in Origins, okStatus \in BOOLEAN, okA \in BOOLEAN :
           Join(origin, okStatus, IF okA THEN {} ELSE ClientIds, okA, TRUE)
    \/ \E origin \in Origins : Health(origin)
    \/ \E c \in ClientIds : ViewerError(c)
    \/ \E s \in SockIds, F \in Failures : SfuOpen(s, F)
    \/ \E s \in SockIds, F \in Failures : SfuClose(s, F)
    \/ \E s \in SockIds, F \in Failures : SfuError(s, F)
    \/ \E t \in TimerIds, F \in Failures : ReconnectFire(t, F)
    \/ \E h \in TimerIds, F \in Failures : HeartbeatTick(h, F)

\* a pending reconnect timer fires: setTimeout(..., 5000) runs its callback
\* unless the timer is cleared first
TimerFires == \E t \in TimerIds, F \in Failures : ReconnectFire(t, F)

FairSpec == Init /\ [][LiveNext]_vars /\ WF_vars(TimerFires)


\* ---- the worker's /stream/ route in front of the relay instances ----
\* `stream:${streamId}`
NameOf(path) == <<"stream">> \o path

\* a route that forwards without looking at the stream id
RouteStreamUnchecked(path) == <<"forward", NameOf(path)>>

\* the /stream/ branch of the worker's fetch: 400 when nothing follows
\* "/stream/", otherwise the request goes to the object named after the path
RouteStream(path) ==
    IF path = <<"">> THEN <<"400", "Stream ID is required">>
    ELSE <<"forward", NameOf(path)>>

\* the relay instance the runtime constructs for the object `name`, from the
\* instance r that has served nothing yet
Construct(r, name) == [r EXCEPT !.streamId = SplitSecond(name)]

\* an upgrade request at /stream/<path> reaches the worker; when it is
\* forwarded, the relay instance of that name serves it as its first viewer
\* (the instance is constructed if this is its first request)
WorkerFetch(path, origin) ==
    /\ requested' = path
    /\ LET out == RouteStream(path)
           r == AcceptViewer(FetchPreamble(Construct(Cur, out[2]), origin, path),
                             1, TRUE, {}, TRUE, TRUE)
       IN IF out[1] = "400"
          THEN response' = out /\ UNCHANGED targetOf
          ELSE /\ response' = r.response
               /\ targetOf' = [targetOf EXCEPT
                                 ![path] = IF @ = Null THEN r.currentWsUrl ELSE @]
    /\ UNCHANGED <<streamId, sfuUrl, currentWsUrl, clients, sfuConnection,
                   audioCodecDescription, videoCodecDescription, reconnectTimeout,
                   heartbeatInterval, isConnectedToSFU, sock, liveTimers,
                   liveIntervals, transport, nextClient, nextSeq, sent>>
    /\ UNCHANGED chatVars

RouterNext == \E path \in StreamPaths, origin \in Origins : WorkerFetch(path, origin)

\* the worker routing requests; the relay variables stay those of an instance
\* that has served nothing (sfuUrl is the configured address or null)
RouterSpec == Init /\ [][RouterNext]_vars


\* ---- the chat room (src/unnamed/part_001) ----
\* The ChatRoom durable object: its session array and the message history
\* under storage key "messages", with the handlers that join a session, take
\* a chat message, and end a session.  Every session keeps its default
\* username (the setUsername command and the two plain HTTP routes, which
\* touch neither the history nor the way a broadcast runs, are left out).  fetch awaits storage.get
\* once and the chat message handler awaits storage.get and storage.put, so
\* each of them is a sequence of steps between which other handlers run; a
\* storage read returns the stored value at the step it completes, a write
\* replaces it.

\* state.id.name || 'default'
roomId == <<"lobby">>
\* the texts a chat message can carry: "", " " and "hi"
Texts == {<<"">>, <<" ">>, <<"hi">>}
\* !messageText || messageText.trim() === ""
IsBlank(text) == text \in {<<"">>, <<" ">>}
\* list.slice(-n)
LastN(list, n) ==
    IF Len(list) > n THEN SubSeq(list, Len(list) - n + 1, Len(list)) ELSE list
\* messages.length > 200 ? messages.slice(-200) : messages
Trim(list) == IF Len(list) > MaxHistory THEN LastN(list, MaxHistory) ELSE list
\* this.sessions.filter(s => s.id !== id)
SessionsWithout(list, id) == SelectSeq(list, LAMBDA x : x # id)
\* this.sessions.map(s => ({ id: s.id, username: s.username }))
UserList(r) == [i \in 1..Len(r.sessions) |-> <<r.sessions[i], Guest(r.sessions[i])>>]

\* the JSON texts the room sends
RoomInfoMessage == <<"roomInfo", roomId>>
SystemMessage(what, name, n) == <<"system", <<what, name, n>>>>
UserListMessage(list) == <<"userList", list>>
HistoryMessage(list) == <<"messageHistory", list>>
ChatMessage(m) == <<"message", m>>
\* messageWithMetadata: from, username, text, and the timestamp as the number
\* of the message in acceptance order
Metadata(from, name, text, n) == <<from, name, text, n>>

ChatCur == [sessions |-> sessions, sent |-> <<>>]

ChatInstall(r) ==
    /\ sessions' = r.sessions
    /\ chatSent' = r.sent

\* session.webSocket.send(str) / server.send(str): the attempt is recorded,
\* with whether it returned or threw
ChatSend(r, id, data, ok) == [r EXCEPT !.sent = Append(@, <<id, data, ok>>)]

\* a loop that gives up at the first send that throws
RECURSIVE ChatLoopAborting(_, _, _, _, _, _)
ChatLoopAborting(r, list, i, message, excludeId, F) ==
    IF i > Len(list) THEN r
    ELSE IF list[i] = excludeId
    THEN ChatLoopAborting(r, list, i + 1, message, excludeId, F)
    ELSE IF list[i] \in F
    THEN [ChatSend(r, list[i], message, FALSE)
            EXCEPT !.sessions = SessionsWithout(@, list[i])]
    ELSE ChatLoopAborting(ChatSend(r, list[i], message, TRUE),
                          list, i + 1, message, excludeId, F)

\* for (const session of this.sessions) { ... }: the loop runs over the array
\* that this.sessions named when it began (`list`); the catch block assigns
\* this.sessions a filtered copy and leaves that array as it is.  F holds the
\* sessions whose send throws
RECURSIVE ChatLoop(_, _, _, _, _, _)
ChatLoop(r, list, i, message, excludeId, F) ==
    IF i > Len(list) THEN r
    ELSE IF list[i] = excludeId
    THEN ChatLoop(r, list, i + 1, message, excludeId, F)
    ELSE LET r1 == ChatSend(r, list[i], message, list[i] \notin F)
             r2 == IF list[i] \in F
                   THEN [r1 EXCEPT !.sessions = SessionsWithout(@, list[i])]
                   ELSE r1
         IN ChatLoop(r2, list, i + 1, message, excludeId, F)

\* a broadcast that stops at the first failed send
broadcastAborting(r, message, excludeId, F) ==
    ChatLoopAborting(r, r.sessions, 1, message, excludeId, F)

\* broadcast(message, excludeId = "")
broadcast(r, message, excludeId, F) ==
    ChatLoop(r, r.sessions, 1, message, excludeId, F)

\* broadcastToAll(message)
broadcastToAll(r, message, F) ==
    ChatLoop(r, r.sessions, 1, message, NoSession, F)

\* server.send of each text of `datas` in turn, outside any try: the first k
\* return, the next one (if there is one) throws and ends the handler
RECURSIVE DirectSends(_, _, _, _, _)
DirectSends(r, id, datas, i, k) ==
    IF i > Len(datas) THEN r
    ELSE IF i > k THEN ChatSend(r, id, datas[i], FALSE)
    ELSE DirectSends(ChatSend(r, id, datas[i], TRUE), id, datas, i + 1, k)

\* fetch, the upgrade branch up to `await this.storage.get("messages")`: the
\* session is pushed, then room information, welcome and user list are sent
\* to it; k of the three sends return
ChatJoin(k) ==
    /\ nextSession < MaxSessions
    /\ LET id == nextSession + 1
           r1 == [ChatCur EXCEPT !.sessions = Append(@, id)]
           datas == <<RoomInfoMessage,
                      SystemMessage("welcome", Guest(id), Len(r1.sessions)),
                      UserListMessage(UserList(r1))>>
       IN /\ ChatInstall(DirectSends(r1, id, datas, 1, k))
          /\ nextSession' = id
          /\ webSocket' = [webSocket EXCEPT ![id] = "open"]
          /\ stage' = [stage EXCEPT ![id] = IF k = 3 THEN "joining" ELSE "rejected"]
          /\ chatResponse' = IF k = 3 THEN <<"none">> ELSE <<"exception">>
    /\ UNCHANGED <<messages, handler, nextMessage>>
    /\ UNCHANGED relayVars

\* fetch, the upgrade branch from the resolution of storage.get on: the last
\* messages of the history are sent to the session when there are any, the
\* join is broadcast to the others, the listeners are attached, 101 is
\* answered
ChatJoinResume(id, okHistory, F) ==
    /\ stage[id] = "joining"
    /\ LET r1 == IF Len(messages) > 0
                 THEN ChatSend(ChatCur, id,
                               HistoryMessage(LastN(messages, MaxShown)), okHistory)
                 ELSE ChatCur
           thrown == Len(messages) > 0 /\ ~okHistory
       IN IF thrown
          THEN /\ ChatInstall(r1)
               /\ stage' = [stage EXCEPT ![id] = "rejected"]
               /\ chatResponse' = <<"exception">>
          ELSE /\ ChatInstall(broadcast(
                      r1, SystemMessage("joined", Guest(id), Len(r1.sessions)), id, F))
               /\ stage' = [stage EXCEPT ![id] = "listening"]
               /\ chatResponse' = <<"101">>
    /\ UNCHANGED <<messages, handler, webSocket, nextSession, nextMessage>>
    /\ UNCHANGED relayVars

\* the message listener, a chat message, up to `await this.storage.get`: an
\* empty text is ignored; otherwise the message gets its metadata and the
\* read of the history is started
ChatReceive(id, text) ==
    /\ stage[id] = "listening"
    /\ webSocket[id] = "open"
    /\ handler[id] = Null
    /\ IF IsBlank(text)
       THEN UNCHANGED <<handler, nextMessage>>
       ELSE /\ nextMessage < MaxChat
            /\ Cardinality({c \in SessionIds : handler[c] # Null}) < MaxInFlight
            /\ nextMessage' = nextMessage + 1
            /\ handler' = [handler EXCEPT
                             ![id] = <<"get", Metadata(id, Guest(id), text,
                                                       nextMessage + 1)>>]
    /\ chatSent' = <<>>
    /\ chatResponse' = <<"none">>
    /\ UNCHANGED <<sessions, messages, stage, webSocket, nextSession>>
    /\ UNCHANGED relayVars

\* storage operations complete in the order they were started: the handler
\* of session id is the earliest of those waiting at this operation
EarliestAt(op, id) ==
    \A c \in SessionIds :
        (Len(handler[c]) > 0 /\ handler[c][1] = op)
            => handler[id][2][4] <= handler[c][2][4]

\* the read resolves: the message is pushed on the list read, the list is
\* trimmed, and the write is started
ChatGet(id) ==
    /\ Len(handler[id]) > 0
    /\ handler[id][1] = "get"
    /\ EarliestAt("get", id)
    /\ handler' = [handler EXCEPT
                     ![id] = <<"put", handler[id][2],
                               Trim(Append(messages, handler[id][2]))>>]
    /\ chatSent' = <<>>
    /\ chatResponse' = <<"none">>
    /\ UNCHANGED <<sessions, messages, stage, webSocket,
                   nextSession, nextMessage>>
    /\ UNCHANGED relayVars

\* storage.put("messages", trimmedMessages) takes effect
ChatPut(id) ==
    /\ Len(handler[id]) > 0
    /\ handler[id][1] = "put"
    /\ EarliestAt("put", id)
    /\ messages' = handler[id][3]
    /\ handler' = [handler EXCEPT ![id] = <<"cast", handler[id][2]>>]
    /\ chatSent' = <<>>
    /\ chatResponse' = <<"none">>
    /\ UNCHANGED <<sessions, stage, webSocket,
                   nextSession, nextMessage>>
    /\ UNCHANGED relayVars

\* the write has resolved: the message is broadcast to every session
ChatCast(id, F) ==
    /\ Len(handler[id]) > 0
    /\ handler[id][1] = "cast"
    /\ ChatInstall(broadcast(ChatCur, ChatMessage(handler[id][2]), NoSession, F))
    /\ handler' = [handler EXCEPT ![id] = Null]
    /\ chatResponse' = <<"none">>
    /\ UNCHANGED <<messages, stage, webSocket, nextSession, nextMessage>>
    /\ UNCHANGED relayVars

\* the "close" listener
OnChatClose(r, id, F1, F2) ==
    LET r1 == [r EXCEPT !.sessions = SessionsWithout(@, id)]
        r2 == broadcast(r1, SystemMessage("left", Guest(id), Len(r1.sessions)),
                        NoSession, F1)
    IN broadcastToAll(r2, UserListMessage(UserList(r2)), F2)

\* the close event of a session's socket; it has a listener once fetch has
\* attached it
ChatClose(id, F1, F2) ==
    /\ webSocket[id] = "open"
    /\ webSocket' = [webSocket EXCEPT ![id] = "closed"]
    /\ IF stage[id] = "listening"
       THEN ChatInstall(OnChatClose(ChatCur, id, F1, F2))
       ELSE ChatInstall(ChatCur)
    /\ chatResponse' = <<"none">>
    /\ UNCHANGED <<messages, stage, handler, nextSession, nextMessage>>
    /\ UNCHANGED relayVars

\* the "error" listener
OnChatError(r, id) == [r EXCEPT !.sessions = SessionsWithout(@, id)]

ChatError(id) ==
    /\ webSocket[id] = "open"
    /\ webSocket' = [webSocket EXCEPT ![id] = "closed"]
    /\ IF stage[id] = "listening"
       THEN ChatInstall(OnChatError(ChatCur, id))
       ELSE ChatInstall(ChatCur)
    /\ chatResponse' = <<"none">>
    /\ UNCHANGED <<messages, stage, handler, nextSession, nextMessage>>
    /\ UNCHANGED relayVars

\* the sessions a send can throw for
ChatFailures == SUBSET Range(sessions)

ChatNext ==
    \/ \E k \in 0..3 : ChatJoin(k)
    \/ \E id \in SessionIds, okHistory \in BOOLEAN, F \in ChatFailures :
           ChatJoinResume(id, okHistory, F)
    \/ \E id \in SessionIds, text \in Texts : ChatReceive(id, text)
    \/ \E id \in SessionIds : ChatGet(id)
    \/ \E id \in SessionIds : ChatPut(id)
    \/ \E id \in SessionIds, F \in ChatFailures : ChatCast(id, F)
    \/ \E id \in SessionIds, F1 \in ChatFailures, F2 \in ChatFailures :
           ChatClose(id, F1, F2)
    \/ \E id \in SessionIds : ChatError(id)

\* the state after construction, in a deployment without SFU_SERVER_URL
ChatInit == Init /\ sfuUrl = Null

\* the chat room alone; the relay variables stay those of an instance that has
\* served nothing
ChatSpec == ChatInit /\ [][ChatNext]_vars


\* ---- properties ----
\* upstream sockets that are open or being opened and that the relay has not
\* closed
AliveSockets == {s \in SockIds : sock[s] \in {"connecting", "open"}}
\* a connect attempt is in flight
ConnectInFlight == \E s \in SockIds : sock[s] = "connecting"

\* C1: in every reachable state at most one upstream connection is open or
\* being opened (connectToSFU creates no socket while an earlier one is still
\* connecting or open and not closed by the relay).
C1_AtMostOneUpstream == Cardinality(AliveSockets) <= 1

\* C2: after every event the heartbeat is armed if and only if the viewer
\* registry is non-empty.
C2_HeartbeatIffViewers == (heartbeatInterval # NoId) <=> (Len(clients) > 0)

\* C3: after every event a reconnect timer is pending if and only if the
\* registry is non-empty, the upstream is not connected and no connect attempt
\* is in flight.
C3_ReconnectTimerIff ==
    (reconnectTimeout # NoId) <=>
        (Len(clients) > 0 /\ ~isConnectedToSFU /\ ~ConnectInFlight)

\* C4: the relay never holds two live reconnect timers: the timers that are
\* neither fired nor cancelled are at most one, and there is one exactly when
\* the handle is non-null, namely the one the handle names.
C4_OneReconnectTimer ==
    liveTimers = IF reconnectTimeout = NoId THEN {} ELSE {reconnectTimeout}

\* C4 witness: a reconnect timer is pending, armed by an upstream close or
\* error, while another upstream socket of the relay is still alive (so
\* scheduleReconnect can be called again before the timer fires).
C4_Witness ==
    /\ reconnectTimeout # NoId
    /\ Len(clients) > 0
    /\ AliveSockets # {}


\* ---- what a handler's sends show ----
\* the viewers of a list of sends, in order
Targets(s) == [i \in 1..Len(s) |-> s[i][1]]
\* the viewers whose send threw
Thrown(s) == {s[i][1] : i \in {j \in 1..Len(s) : ~s[j][3]}}
\* the viewers that were delivered something, once for each delivery
Delivered(s) == Targets(SelectSeq(s, LAMBDA e : e[3]))
StatusSends(s) == SelectSeq(s, LAMBDA e : ~IsBinary(e[2]))
BinarySends(s) == SelectSeq(s, LAMBDA e : IsBinary(e[2]))
Without(list, S) == SelectSeq(list, LAMBDA x : x \notin S)
SameData(s) == \A i, j \in 1..Len(s) : s[i][2] = s[j][2]

\* one loop over the registry `before` that made the sends s and left the
\* registry `after`: every viewer is visited once, in order, none is skipped;
\* the viewers whose send threw are exactly the ones removed; all the others
\* are delivered the same data once
OneBroadcast(before, s, after) ==
    /\ Targets(s) = before
    /\ SameData(s)
    /\ after = Without(before, Thrown(s))
    /\ Delivered(s) = after

\* C5: one broadcast, binary fan-out or status broadcast, removes exactly the
\* viewers whose send throws, delivers the message once to every other viewer,
\* visits no viewer twice and skips none, and raises nothing: checked on the
\* heartbeat tick and the upstream open event (one status broadcast each; the
\* viewers whose send threw are the ones the sends show) and on the upstream
\* message event (a status broadcast when the audio slot is empty, then the
\* fan-out of the frame over the viewers that are left).
C5_BroadcastIsolation ==
    [][/\ (\E h \in liveIntervals : HeartbeatTick(h, Thrown(sent')))
           => OneBroadcast(clients, sent', clients') /\ response' = <<"none">>
       /\ (\E s \in SockIds : SfuOpen(s, Thrown(sent')))
           => OneBroadcast(clients, sent', clients') /\ response' = <<"none">>
       /\ (nextSeq' = nextSeq + 1)
           => LET st == StatusSends(sent')
                  bn == BinarySends(sent')
                  mid == Without(clients, Thrown(st))
              IN /\ IF audioCodecDescription = Null
                    THEN OneBroadcast(clients, st, mid)
                    ELSE st = <<>>
                 /\ OneBroadcast(mid, bn, clients')
                 /\ sent' = st \o bn
                 /\ response' = <<"none">>]_vars

\* C5 witness: a fan-out over three registered viewers in which one send threw:
\* that viewer is gone and the two others hold the frame.
C5_Witness ==
    /\ Len(sent) = 3
    /\ \A i \in 1..3 : IsBinary(sent[i][2])
    /\ Cardinality(Thrown(sent)) = 1
    /\ Len(clients) = 2
    /\ Delivered(sent) = clients

\* the relay is torn down: no upstream connection held, flag false, no
\* reconnect timer, no heartbeat, no upstream socket left open or opening
TornDown ==
    /\ sfuConnection = NoId
    /\ ~isConnectedToSFU
    /\ reconnectTimeout = NoId /\ liveTimers = {}
    /\ heartbeatInterval = NoId /\ liveIntervals = {}
    /\ AliveSockets = {}

\* C6: whenever the registry is empty (handleClientDisconnect removed the last
\* viewer, and until the next join, whatever upstream events arrive), the
\* upstream connection is closed and dropped, the flag is false, no reconnect
\* timer is pending and the heartbeat is stopped.
C6_EmptyMeansTornDown == Len(clients) = 0 => TornDown

\* the fields of the relay that handleClientDisconnect can touch
RelayState(r) ==
    <<r.clients, r.sfuConnection, r.isConnectedToSFU, r.reconnectTimeout,
      r.heartbeatInterval, r.sock, r.liveTimers, r.liveIntervals,
      r.audioCodecDescription, r.videoCodecDescription>>

\* C7: handleClientDisconnect is idempotent: from every reachable state and for
\* every client id, calling it twice yields the state that calling it once
\* yields, and calling it with an id that is not registered changes nothing.
C7_DisconnectIdempotent ==
    \A c \in ClientIds :
        LET once == handleClientDisconnect(Cur, c)
        IN /\ RelayState(handleClientDisconnect(once, c)) = RelayState(once)
           /\ c \notin Range(clients) => RelayState(once) = RelayState(Cur)

\* C8: cache-once law: a populated init slot is never changed again, by no
\* frame and no other event, and a slot only ever holds a frame whose leading
\* byte is its type (1 = audio, 0 = video).
C8_CacheOnce ==
    /\ [](/\ audioCodecDescription # Null => audioCodecDescription[2] = 1
          /\ videoCodecDescription # Null => videoCodecDescription[2] = 0)
    /\ [][/\ audioCodecDescription # Null
               => audioCodecDescription' = audioCodecDescription
          /\ videoCodecDescription # Null
               => videoCodecDescription' = videoCodecDescription]_vars

\* C8 witness: both slots are populated and a later frame of one of the two
\* types has just been fanned out.
C8_Witness ==
    /\ audioCodecDescription # Null
    /\ videoCodecDescription # Null
    /\ \E i \in 1..Len(sent) :
           /\ IsBinary(sent[i][2])
           /\ sent[i][2][2] \in {0, 1}
           /\ sent[i][2][3] > audioCodecDescription[3]
           /\ sent[i][2][3] > videoCodecDescription[3]

\* a join of a viewer that is not the first, while the upstream is connected
\* and both init slots are populated, and whose initial status was delivered
LateJoin ==
    /\ nextClient' = nextClient + 1
    /\ Len(clients) >= 1
    /\ isConnectedToSFU
    /\ audioCodecDescription # Null
    /\ videoCodecDescription # Null
    /\ nextClient' \in Range(clients')

\* the two cached frames in the order in which the slots were populated
\* (frames carry their arrival number)
InPopulationOrder ==
    IF audioCodecDescription[3] < videoCodecDescription[3]
    THEN <<audioCodecDescription, videoCodecDescription>>
    ELSE <<videoCodecDescription, audioCodecDescription>>

C10_ArrivalOrder ==
    [][/\ nextSeq' >= nextSeq
       /\ LET bn == BinarySends(sent')
          IN IF nextClient' # nextClient
             THEN \A i \in 1..Len(bn) :
                      /\ bn[i][1] = nextClient'
                      /\ bn[i][2] \in {audioCodecDescription, videoCodecDescription}
             ELSE /\ bn # <<>> => nextSeq' = nextSeq + 1
                  /\ \A i \in 1..Len(bn) : bn[i][2][3] = nextSeq'
                  /\ \A i, j \in 1..Len(bn) : bn[i][1] = bn[j][1] => i = j]_vars

\* C10 witness: a frame that is not the first to arrive is delivered to two
\* viewers.
C10_Witness ==
    /\ nextSeq >= 2
    /\ Len(BinarySends(sent)) >= 2
    /\ \A i \in 1..Len(sent) : IsBinary(sent[i][2]) => sent[i][2][3] = nextSeq /\ sent[i][3]


\* the last handler made a connect attempt that failed at once (its catch
\* branch broadcast "Failed to connect to SFU")
AttemptFailedNow ==
    \E i \in 1..Len(sent) : sent[i][2] = StatusMessage(<<"Failed to connect to SFU">>, FALSE)
\* a connect attempt is in flight or has just been made
AttemptMade == ConnectInFlight \/ AttemptFailedNow
\* viewers are registered and the upstream is not connected
Disconnected == Len(clients) > 0 /\ ~isConnectedToSFU

\* C11: reconnection is live.  The relay is never in a state with viewers
\* registered, upstream not connected, no connect attempt in flight and no
\* reconnect timer pending; and, when timers fire, from every state with
\* viewers registered, the upstream not connected and no attempt in flight or
\* just made, a connect attempt is eventually made unless the registry
\* becomes empty, however many attempts were made before (an attempt in
\* flight ends, by assumption, with an open, close or error event, which
\* leaves the relay connected or in a state of this kind again).
C11_ReconnectLive ==
    /\ [](Disconnected => ConnectInFlight \/ reconnectTimeout # NoId)
    /\ (Disconnected /\ ~AttemptMade) ~> (AttemptMade \/ Len(clients) = 0)

\* C11 witness: an attempt made by the reconnect timer has failed (error
\* event with the flag false and a viewer registered) and a further reconnect
\* timer is pending.
C11_Witness ==
    /\ Disconnected
    /\ ~ConnectInFlight
    /\ reconnectTimeout # NoId
    /\ \E i \in 1..Len(sent) : sent[i][2] = StatusMessage(<<"Error connecting to SFU">>, FALSE)
    /\ currentWsUrl # Null


\* the handler that just ran called connectToSFU: a socket object was created
\* (it is connecting now and was not before), or the connector threw and the
\* catch branch broadcast its message
ConnectInitiated ==
    \/ \E s \in SockIds : sock[s] # "connecting" /\ sock'[s] = "connecting"
    \/ \E i \in 1..Len(sent') :
           sent'[i][2] = StatusMessage(<<"Failed to connect to SFU">>, FALSE)
\* the step is a viewer join
JoinStep == nextClient' = nextClient + 1
\* the step is the firing of a reconnect timer
TimerStep == \E t \in liveTimers : ReconnectFire(t, Thrown(sent'))

\* C12: an upstream connect is initiated only by a join that takes the
\* registry from empty to non-empty (a join made with no viewer registered:
\* clients.set makes the registry non-empty) or by the firing of the reconnect timer; a
\* join made while another viewer is registered initiates none, even when the
\* initial status send to the joining viewer fails.
C12_ConnectTriggers ==
    [][/\ ConnectInitiated
           => \/ JoinStep /\ Len(clients) = 0
              \/ TimerStep
       /\ JoinStep /\ Len(clients) > 0 => ~ConnectInitiated]_vars


\* the heartbeat is started by this step: a new interval handle is held
HeartbeatStarted == heartbeatInterval' # NoId /\ heartbeatInterval' # heartbeatInterval
\* the heartbeat is stopped by this step
HeartbeatStopped == heartbeatInterval # NoId /\ heartbeatInterval' = NoId

\* C13: the heartbeat is started exactly once per non-empty period of the
\* registry, by the join that makes the registry non-empty, and stopped
\* exactly once, by the step that makes it empty; a join made while the
\* heartbeat is armed leaves the armed interval as it is.
C13_HeartbeatOncePerPeriod ==
    [][/\ HeartbeatStarted => JoinStep /\ Len(clients) = 0 /\ heartbeatInterval = NoId
       /\ JoinStep /\ Len(clients) = 0 /\ Len(clients') > 0 => HeartbeatStarted
       /\ HeartbeatStopped => Len(clients) > 0 /\ Len(clients') = 0
       /\ Len(clients) > 0 /\ Len(clients') = 0 => heartbeatInterval' = NoId
       /\ JoinStep /\ heartbeatInterval # NoId
            => heartbeatInterval' = heartbeatInterval /\ liveIntervals' = liveIntervals]_vars


\* every field of the relay instance together with its sockets and timers
InstanceFields ==
    <<streamId, sfuUrl, currentWsUrl, clients, sfuConnection,
      audioCodecDescription, videoCodecDescription, reconnectTimeout,
      heartbeatInterval, isConnectedToSFU, sock, liveTimers, liveIntervals>>

\* C14: the /health request is a pure read: whatever Origin header it
\* carries, serving it leaves every field of the relay instance unchanged and
\* answers the current stream id, registry size and connected flag.
C14_HealthPureRead ==
    [][(\E origin \in Origins : Health(origin))
         => /\ InstanceFields' = InstanceFields
            /\ response' = <<"ok", streamId, Len(clients), isConnectedToSFU>>
            /\ sent' = <<>>]_vars


\* C15: every failed send to a viewer is recovered locally, whichever
\* operation makes it (initial status, init-frame replay, fan-out, status
\* broadcast, heartbeat): after a handler other than the end of a viewer
\* socket, the registry is the registry before it (with the joining viewer,
\* for a join) less exactly the viewers whose send threw, and the handler
\* ends with no exception.
C15_SendFailureLocal ==
    [][JoinStep \/ transport' = transport
         => /\ clients' = Without(IF JoinStep THEN Append(clients, nextClient')
                                              ELSE clients,
                                  Thrown(sent'))
            /\ response' # <<"exception">>]_vars


\* C16: while the registry is empty the upstream manager stays disconnected
\* and does nothing: the flag is false and no reconnect timer is pending,
\* whatever open, close or error events of earlier upstream sockets are
\* delivered, and a connect attempt is started from an empty registry only by
\* a join.
C16_EmptyStaysDisconnected ==
    /\ [](Len(clients) = 0
            => ~isConnectedToSFU /\ reconnectTimeout = NoId /\ liveTimers = {})
    /\ [][Len(clients) = 0 /\ ConnectInitiated => JoinStep]_vars


\* the sends of the list s that went to viewer c, in order
SentTo(s, c) == SelectSeq(s, LAMBDA e : e[1] = c)
\* the initial status frame of a join made in the current state
InitialStatus == StatusMessage(<<"Connected to stream relay">>, isConnectedToSFU)

C19_AddressResolvedOnce ==
    [][sfuUrl # Null => sfuUrl' = sfuUrl]_vars

\* C19 witness: the address came from the environment, and two upgrade
\* requests (each with or without an Origin header, whose value would give
\* another address) have been served and connects made with it.
C19_Witness ==
    /\ sfuUrl = <<"ws", "sfu">>
    /\ currentWsUrl = WsUrl(sfuUrl, streamId)
    /\ nextClient >= 2


\* C18: an upgrade request whose path is exactly /stream/ is answered 400 by
\* the worker, is forwarded to no relay instance, creates no relay state and
\* arms nothing that would retry it.
C18_NoStreamIdRejected ==
    [][(\E origin \in Origins : WorkerFetch(<<"">>, origin))
         => /\ response' = <<"400", "Stream ID is required">>
            /\ targetOf' = targetOf
            /\ InstanceFields' = InstanceFields
            /\ sent' = sent]_vars

\* C18 witness: the worker has just answered 400 to a request at /stream/
\* after it had forwarded requests for other paths.
C18_Witness ==
    /\ requested = <<"">>
    /\ response[1] = "400"
    /\ \E p \in StreamPaths : targetOf[p] # Null

\* C20: for every stream id s requested at /stream/<s>, the relay instance
\* serving it connects to <base>/consume/<s>, where <base> is the configured
\* address, and two different stream ids never give the same upstream path.
C20_ConsumeUrl ==
    /\ \A p \in StreamPaths :
           targetOf[p] # Null /\ sfuUrl # Null => targetOf[p] = WsUrl(sfuUrl, p)
    /\ \A p, q \in StreamPaths :
           p # q /\ targetOf[p] # Null /\ targetOf[q] # Null
             => <<targetOf[p][2], targetOf[p][3]>> # <<targetOf[q][2], targetOf[q][3]>>


\* the step is the open event of an upstream socket
OpenStep == \E s \in SockIds : sock[s] = "connecting" /\ sock'[s] = "open"
\* the step is the close or the error event of an upstream socket
EndStep == \E s \in SockIds : sock[s] # "closed" /\ sock'[s] = "closed"
\* the status texts a handler broadcasts right after it has set the flag
TextsWhenTrue == {<<"Connected to SFU server">>}
TextsWhenFalse ==
    {<<"Disconnected from SFU, attempting to reconnect...">>,
     <<"Error connecting to SFU">>, <<"Failed to connect to SFU">>}

\* C21: the open event sets the flag and sends every registered viewer one
\* status message whose isConnectedToSFU field is true (the flag is true
\* afterwards unless the failed sends of that broadcast emptied the registry);
\* a close or error event leaves the flag false and sends every registered
\* viewer one status message whose field is false; and in every status
\* message of every handler the field is the flag at the moment of sending:
\* the value the handler has just set, or else the flag the handler found.
C21_StatusFlag ==
    [][/\ OpenStep
           => /\ Targets(sent') = clients
              /\ \A i \in 1..Len(sent') :
                    sent'[i][2] = StatusMessage(<<"Connected to SFU server">>, TRUE)
              /\ Len(clients') > 0 \/ Len(clients) = 0 => isConnectedToSFU'
       /\ EndStep
           => /\ Targets(sent') = clients
              /\ \A i \in 1..Len(sent') :
                    /\ ~IsBinary(sent'[i][2])
                    /\ sent'[i][2][2] \in TextsWhenFalse
                    /\ sent'[i][2][3] = FALSE
              /\ ~isConnectedToSFU'
       /\ \A i \in 1..Len(sent') :
             ~IsBinary(sent'[i][2])
               => sent'[i][2][3] =
                    IF sent'[i][2][2] \in TextsWhenTrue THEN TRUE
                    ELSE IF sent'[i][2][2] \in TextsWhenFalse THEN FALSE
                    ELSE isConnectedToSFU]_vars

\* C21 witness: an open event has just been handled with two viewers
\* registered: both were sent the status with the field true, one send threw.
C21_Witness ==
    /\ isConnectedToSFU
    /\ Len(sent) = 2
    /\ \A i \in 1..2 : sent[i][2] = StatusMessage(<<"Connected to SFU server">>, TRUE)
    /\ Cardinality(Thrown(sent)) = 1
    /\ Len(clients) = 1


\* a relay record without the sends its handler made
Silenced(r) == [r EXCEPT !.sent = <<>>]
\* the sends s and t go to the same viewers with the same outcomes and the
\* same flag field, whatever their texts
SameButText(s, t) ==
    /\ Len(s) = Len(t)
    /\ \A i \in 1..Len(s) :
          /\ s[i][1] = t[i][1] /\ s[i][3] = t[i][3]
          /\ ~IsBinary(s[i][2]) /\ ~IsBinary(t[i][2])
          /\ s[i][2][3] = t[i][2][3]

\* C22: an upstream error is handled as an upstream close: from every
\* reachable state and for every outcome of the sends, the error handler and
\* the close handler leave the same relay state (flag false, same registry,
\* same timer) and make the same sends but for the text; and a close handled
\* after an error arms no timer beyond the one the error handling left.
C22_ErrorLikeClose ==
    \A F \in Failures :
        LET e == OnSfuError(Cur, F)
            c == OnSfuClose(Cur, F)
        IN /\ Silenced(e) = Silenced(c)
           /\ SameButText(e.sent, c.sent)
           /\ ~e.isConnectedToSFU
           /\ e.reconnectTimeout # NoId <=> Len(e.clients) > 0
           /\ \A F2 \in SUBSET Range(e.clients) :
                 LET ec == OnSfuClose(e, F2)
                 IN /\ ec.liveTimers \subseteq e.liveTimers
                    /\ Cardinality(ec.liveTimers) <= 1

\* C22 witness: an error event has just been handled with viewers left and
\* has armed the reconnect timer, so that the close event that follows it
\* finds the timer pending.
C22_Witness ==
    /\ Len(sent) = Len(clients) + 1
    /\ \A i \in 1..Len(sent) :
          sent[i][2] = StatusMessage(<<"Error connecting to SFU">>, FALSE)
    /\ reconnectTimeout # NoId
    /\ OnSfuClose(Cur, {}).liveTimers = liveTimers


\* the step is an upstream message event
MessageStep == nextSeq' = nextSeq + 1
\* the handler that just ran sent a status message with this text
Notified(text) ==
    \E i \in 1..Len(sent') : ~IsBinary(sent'[i][2]) /\ sent'[i][2][2] = text

\* C23: a codec notification is emitted exactly when an init slot is
\* populated: a message event handled with viewers registered sends the
\* audio notification if and only if it fills the audio slot, and the video
\* notification if and only if it fills the video slot; a frame that fills no
\* slot brings no notification.
C23_CodecNotification ==
    [][MessageStep /\ Len(clients) > 0
         => /\ Notified(<<"Received audio codec information from SFU">>)
                  <=> (audioCodecDescription = Null /\ audioCodecDescription' # Null)
            /\ Notified(<<"Received video codec information from SFU">>)
                  <=> (videoCodecDescription = Null /\ videoCodecDescription' # Null)]_vars


\* C24: every upstream frame, whatever its leading byte and whether or not
\* it has just been cached, is forwarded as it arrived to every viewer
\* registered when the fan-out runs (the viewers registered at the event less
\* those the codec notification removed), and a slot it fills holds the frame
\* as it arrived.
C24_ForwardVerbatim ==
    [][\A byte \in Bytes :
         (\E s \in SockIds :
              SfuMessage(s, byte, Thrown(StatusSends(sent')), Thrown(BinarySends(sent'))))
           => LET data == Frame(byte, nextSeq + 1)
                  bn == BinarySends(sent')
              IN /\ Targets(bn) = Without(clients, Thrown(StatusSends(sent')))
                 /\ \A i \in 1..Len(bn) : bn[i][2] = data
                 /\ audioCodecDescription' # audioCodecDescription
                       => audioCodecDescription' = data
                 /\ videoCodecDescription' # videoCodecDescription
                       => videoCodecDescription' = data]_vars

\* C24 witness: a frame that has just been cached in the video slot was also
\* delivered to two viewers.
C24_Witness ==
    /\ videoCodecDescription # Null
    /\ videoCodecDescription[3] = nextSeq
    /\ Len(clients) >= 2
    /\ Delivered(BinarySends(sent)) = clients
    /\ \A i \in 1..Len(sent) : IsBinary(sent[i][2]) => sent[i][2] = videoCodecDescription


\* the replay condition of a join made in the current state
ReplayDue ==
    /\ isConnectedToSFU
    /\ audioCodecDescription # Null
    /\ videoCodecDescription # Null

\* C25: init frames are replayed on a join only when the upstream is
\* connected and both slots are populated: a viewer that joins a non-empty
\* registry while the cache is empty, while one slot only is populated or
\* while the flag is false is sent its initial status frame and nothing else,
\* and whenever a join sends a binary frame the condition held.
C25_ReplayOnlyWhenReady ==
    [][JoinStep /\ Len(clients) > 0
         => /\ ~ReplayDue => SentTo(sent', nextClient')
                                = <<<<nextClient', InitialStatus, sent'[1][3]>>>>
            /\ BinarySends(sent') # <<>> => ReplayDue]_vars

\* C25 witness: a viewer has joined a relay that holds both init frames while
\* the upstream was disconnected: it got the initial status and no frame.
C25_Witness ==
    /\ nextClient >= 2
    /\ Len(clients) >= 2
    /\ sent = <<<<nextClient, StatusMessage(<<"Connected to stream relay">>, FALSE), TRUE>>>>
    /\ ~isConnectedToSFU
    /\ audioCodecDescription # Null
    /\ videoCodecDescription # Null


\* every field of the relay record r together with its sockets and timers
FieldsOf(r) ==
    <<r.streamId, r.sfuUrl, r.currentWsUrl, r.clients, r.sfuConnection,
      r.audioCodecDescription, r.videoCodecDescription, r.reconnectTimeout,
      r.heartbeatInterval, r.isConnectedToSFU, r.sock, r.liveTimers, r.liveIntervals>>
\* the removal (handleClientDisconnect) of the viewers of the list ids, in order
RECURSIVE RemoveAll(_, _)
RemoveAll(r, ids) ==
    IF ids = <<>> THEN r
    ELSE RemoveAll(handleClientDisconnect(r, Head(ids)), Tail(ids))
\* the text a heartbeat tick sends in the current state
HeartbeatText ==
    IF isConnectedToSFU
    THEN <<"Connected to SFU, waiting for stream data...">>
    ELSE <<"Not connected to SFU: ", currentWsUrl, ", attempting to connect...">>

\* C26: a heartbeat tick makes one status broadcast to all registered
\* viewers; its text is the connected one when the flag is true at the tick
\* and otherwise the not-connected one naming currentWsUrl, the url of the
\* latest connect attempt; and the tick changes the relay only by removing
\* (handleClientDisconnect, with the teardown it does for the last viewer)
\* the viewers whose send threw.
C26_HeartbeatTick ==
    [][(\E h \in liveIntervals : HeartbeatTick(h, Thrown(sent')))
         => /\ OneBroadcast(clients, sent', clients')
            /\ \A i \in 1..Len(sent') :
                  sent'[i][2] = StatusMessage(HeartbeatText, isConnectedToSFU)
            /\ InstanceFields'
                  = FieldsOf(RemoveAll(Cur, SelectSeq(clients,
                                            LAMBDA c : c \in Thrown(sent'))))
            /\ response' = <<"none">>]_vars

\* C26 witness: a tick has just told two viewers that the relay is not
\* connected, naming the url of the latest attempt; one of the sends threw.
C26_Witness ==
    /\ Len(sent) = 2
    /\ \A i \in 1..2 :
          /\ ~IsBinary(sent[i][2])
          /\ sent[i][2][2] = <<"Not connected to SFU: ", currentWsUrl, ", attempting to connect...">>
    /\ currentWsUrl # Null
    /\ Cardinality(Thrown(sent)) = 1
    /\ Len(clients) = 1


\* the sends of the catch block's broadcast
FailedSends(s) ==
    SelectSeq(s, LAMBDA e : e[2] = StatusMessage(<<"Failed to connect to SFU">>, FALSE))
\* the registry the catch block's broadcast finds: the one before the step,
\* with the joining viewer when the step is a join whose initial status send
\* returned
RegistryAtCatch ==
    IF JoinStep /\ sent'[1][3] THEN Append(clients, nextClient') ELSE clients

\* C27: when the connector throws, connectToSFU catches it: after the step
\* the flag is false, no upstream socket was created, every viewer registered
\* at the catch was sent the "Failed to connect to SFU" status once (the ones
\* whose send threw are removed), a reconnect timer is pending if and only if
\* the registry is non-empty after that broadcast, and a join that triggered
\* the connect is answered 101.
C27_ConnectThrowCaught ==
    [][FailedSends(sent') # <<>>
         => /\ ConnectorThrows(sfuUrl)
            /\ JoinStep \/ TimerStep
            /\ ~isConnectedToSFU'
            /\ sfuConnection' = sfuConnection /\ sock' = sock
            /\ OneBroadcast(RegistryAtCatch, FailedSends(sent'), clients')
            /\ reconnectTimeout' # NoId <=> Len(clients') > 0
            /\ reconnectTimeout' # NoId => reconnectTimeout' \in liveTimers'
            /\ JoinStep => response' = <<"101">>]_vars

\* C27 witness: a first join whose connect threw has been answered 101; the
\* viewer is registered, was told of the failure, and a timer is pending.
C27_Witness ==
    /\ response = <<"101">>
    /\ Len(sent) = 2
    /\ FailedSends(sent) = <<sent[2]>>
    /\ sent[2][3]
    /\ clients = <<nextClient>>
    /\ ~isConnectedToSFU
    /\ reconnectTimeout \in liveTimers
    /\ sfuConnection = NoId

\* C27 witness of the other side: the catch broadcast emptied the registry and
\* no timer is pending.
C27_WitnessEmptied ==
    /\ response = <<"101">>
    /\ FailedSends(sent) # <<>>
    /\ clients = <<>>
    /\ reconnectTimeout = NoId


\* the ids joins have handed out that are not in the registry: every join
\* registers its id, so these are the removed ones
Removed == {c \in 1..nextClient : c \notin Range(clients)}
\* the step handles the close or error event of viewer c's transport
ViewerEventStep(c) == transport[c] = "open" /\ transport'[c] = "closed"
\* within the sends s nothing follows a send that threw to the same viewer
\* (the viewer a send throws for is removed on the spot)
NothingAfterRemoval(s) ==
    \A i, j \in 1..Len(s) : i < j /\ s[i][1] = s[j][1] => s[i][3]

\* C28: once the close or error event of a viewer's transport has been
\* handled, its id is out of the registry, and an id that is out never comes
\* back; the registry holds each id once, every one of them handed out by a
\* join; and a handler sends only to viewers that were registered when it
\* started (or that it registers) and to none after it has removed it.
C28_RemovedForGood ==
    [][/\ \A c \in ClientIds : ViewerEventStep(c) => c \notin Range(clients')
       /\ \A c \in Removed : c \notin Range(clients')
       /\ Cardinality(Range(clients')) = Len(clients')
       /\ Range(clients') \subseteq 1..nextClient'
       /\ \A i \in 1..Len(sent') :
             sent'[i][1] \in Range(clients) \cup (IF JoinStep THEN {nextClient'} ELSE {})
       /\ NothingAfterRemoval(sent')]_vars

\* the registry part of C28 alone, without the sends made after a removal
C28_IdsRemovedForGood ==
    [][/\ \A c \in ClientIds : ViewerEventStep(c) => c \notin Range(clients')
       /\ \A c \in Removed : c \notin Range(clients')
       /\ Cardinality(Range(clients')) = Len(clients')
       /\ Range(clients') \subseteq 1..nextClient'
       /\ \A i \in 1..Len(sent') :
             sent'[i][1] \in Range(clients) \cup (IF JoinStep THEN {nextClient'} ELSE {})]_vars


\* the step delivers an open, close or error event of upstream socket s
UpstreamEventStep(s) == sock'[s] # sock[s] /\ sock'[s] \in {"open", "closed"}
\* socket s is not the relay's current connection: the relay closed it or a
\* later connect replaced it
Superseded(s) == s # sfuConnection \/ sock[s] = "closing"
OpenSockets == {s \in SockIds : sock[s] = "open"}

\* C29: an open, close or error event of an upstream socket the relay has
\* closed or replaced changes neither the connected flag nor the reconnect
\* timer (none is armed), so it leads to no further connect; and the relay
\* never has two open upstream connections.
C29_SupersededInert ==
    /\ [][\A s \in SockIds :
             UpstreamEventStep(s) /\ Superseded(s)
               => /\ isConnectedToSFU' = isConnectedToSFU
                  /\ reconnectTimeout' = reconnectTimeout
                  /\ liveTimers' = liveTimers]_vars
    /\ [](Cardinality(OpenSockets) <= 1)

\* the second half of C29 alone
C29_OneOpenUpstream == Cardinality(OpenSockets) <= 1


\* C30: in every reachable state, when the connected flag is true the
\* registry is non-empty, the relay holds a current upstream connection
\* object and no reconnect timer is pending.
C30_ConnectedImplies ==
    isConnectedToSFU
      => /\ Len(clients) > 0
         /\ sfuConnection # NoId
         /\ reconnectTimeout = NoId

\* the three parts of C30, one at a time
C30_ConnectedHasViewers == isConnectedToSFU => Len(clients) > 0
C30_ConnectedHasSocket == isConnectedToSFU => sfuConnection # NoId
C30_ConnectedNoTimer == isConnectedToSFU => reconnectTimeout = NoId


\* the step's handler made a send that threw and left the registry empty: the
\* last viewer was removed through a send failure
LastRemovedBySendFailure == Thrown(sent') # {} /\ Len(clients') = 0

\* C31: when a send failure removes the last viewer, in whichever handler the
\* send was made (fan-out, status broadcast, heartbeat tick, initial status,
\* the broadcast of an upstream close or error listener, the catch block of
\* connectToSFU), the relay is torn down as by a viewer close: after the
\* handler the connection it held is closed and dropped, the flag is false,
\* and neither the heartbeat handle nor the reconnect handle is set.
C31_SendFailureTearsDown ==
    [][LastRemovedBySendFailure
         => /\ sfuConnection' = NoId
            /\ sfuConnection # NoId => sock'[sfuConnection] \notin {"connecting", "open"}
            /\ ~isConnectedToSFU'
            /\ heartbeatInterval' = NoId
            /\ reconnectTimeout' = NoId]_vars

\* C31 without the heartbeat: the part that holds in every handler
C31_SendFailureTearsDownButHeartbeat ==
    [][LastRemovedBySendFailure
         => /\ sfuConnection' = NoId
            /\ sfuConnection # NoId => sock'[sfuConnection] \notin {"connecting", "open"}
            /\ ~isConnectedToSFU'
            /\ reconnectTimeout' = NoId]_vars


\* C32: the init-frame cache changes only when an upstream frame fills an
\* empty slot: every other step (a viewer's leave with or without teardown,
\* an upstream open, close or error, a connect or reconnect, a join, a tick)
\* leaves both slots as they are, so the slots filled in one session are
\* still filled after the last viewer has left, and a join of a later
\* session replays them.
C32_CacheKept ==
    [][/\ audioCodecDescription' # audioCodecDescription
            => MessageStep /\ audioCodecDescription = Null
                           /\ audioCodecDescription' = Frame(1, nextSeq')
       /\ videoCodecDescription' # videoCodecDescription
            => MessageStep /\ videoCodecDescription = Null
                           /\ videoCodecDescription' = Frame(0, nextSeq')]_vars

\* C32 witness: the cache outlives the teardown: the last viewer has left,
\* the relay holds no connection, and both slots are still filled.
C32_Witness ==
    /\ Len(clients) = 0
    /\ nextClient > 0
    /\ sfuConnection = NoId
    /\ ~isConnectedToSFU
    /\ audioCodecDescription # Null
    /\ videoCodecDescription # Null

\* a join made after an earlier viewer has left replays the two slots as they
\* are held
C32_WitnessReplay ==
    /\ transport = <<"closed", "open", "open">>
    /\ clients = <<2, 3>>
    /\ BinarySends(sent) = <<<<3, audioCodecDescription, TRUE>>,
                             <<3, videoCodecDescription, TRUE>>>>


\* C33: in every reachable state at most one heartbeat interval is live: the
\* live intervals are none when the handle is null and otherwise the one the
\* handle names (startHeartbeat clears the interval it holds before it arms a
\* new one; the teardown clears it and nulls the handle).
C33_OneHeartbeat ==
    liveIntervals = IF heartbeatInterval = NoId THEN {} ELSE {heartbeatInterval}

\* C33 witness: startHeartbeat has run while an interval was live: the handle
\* names the new interval (setInterval never returns the handle just
\* cleared) and it is the only live one.
C33_Witness ==
    /\ heartbeatInterval = 2
    /\ liveIntervals = {2}
    /\ Len(clients) > 0


\* the step is a join made with an empty registry whose initial status send
\* threw
FirstStatusFails == JoinStep /\ Len(clients) = 0 /\ ~sent'[1][3]
\* the step is such a join and the first request the instance serves
VeryFirstStatusFails == FirstStatusFails /\ nextClient = 0
\* the fields of the instance other than the upstream address
SessionFields ==
    <<streamId, currentWsUrl, clients, sfuConnection,
      audioCodecDescription, videoCodecDescription, reconnectTimeout,
      heartbeatInterval, isConnectedToSFU, sock, liveTimers, liveIntervals>>

ChatInFlight ==
    {handler[c][2][4] : c \in {d \in SessionIds :
                                  Len(handler[d]) > 0 /\ handler[d][1] \in {"get", "put"}}}
\* the messages accepted whose write has been made
ChatWritten == (1..nextMessage) \ ChatInFlight
\* the MaxHistory most recent of the set S of message numbers
Recent(S) == {n \in S : Cardinality({m \in S : m > n}) < MaxHistory}
\* the numbers of the messages of the stored history, in order
StoredNumbers == [i \in 1..Len(messages) |-> messages[i][4]]

\* the history never exceeds its limit and is in acceptance order
C35_HistoryBounded ==
    /\ Len(messages) <= MaxHistory
    /\ \A i, j \in 1..Len(messages) : i < j => messages[i][4] < messages[j][4]
\* no written message is missing from the history while it is among the most
\* recent ones
C35_NoneLost == Recent(ChatWritten) \subseteq Range(StoredNumbers)

\* C35: the stored history holds at most MaxHistory messages (200 in the
\* source) and is always the most recent accepted messages whose write was
\* made, in acceptance order, also when the handlers of two sessions
\* interleave between their storage read and their storage write: no
\* message is lost.
C35_HistoryKeepsAll ==
    /\ C35_HistoryBounded
    /\ Range(StoredNumbers) = Recent(ChatWritten)


\* the sends of the list s that a broadcast made (the history is sent to the
\* joining session directly)
BroadcastSends(s) == SelectSeq(s, LAMBDA e : e[2][1] # "messageHistory")
\* the sends of the list s whose text has this type
SendsOfType(s, type) == SelectSeq(s, LAMBDA e : e[2][1] = type)
\* the step delivers the close or the error event of session id to its
\* listener
ChatEndStep(id) ==
    webSocket[id] = "open" /\ webSocket'[id] = "closed" /\ stage[id] = "listening"
\* the step is the broadcast of a chat message after its write
ChatCastStep ==
    \E id \in SessionIds :
        Len(handler[id]) > 0 /\ handler[id][1] = "cast" /\ handler'[id] = Null
\* the step is the second half of the fetch that accepted session id, and it
\* reached its broadcast
ChatJoinedStep(id) == stage[id] = "joining" /\ stage'[id] = "listening"

\* C36: a chat broadcast sends the message once to every session of the
\* array (but the excluded one, when an id is given), in array order and
\* skipping none, removes exactly the sessions whose send threw and goes on
\* after a send that threw: checked on the broadcast of a chat message (no
\* exclusion), on the join broadcast (the joining session excluded) and on
\* the two broadcasts of the close listener (the error listener, and a close
\* that finds no other session, send nothing); a session that the close or
\* the error listener removed is out of the array, a session that is out of
\* the array never returns and is sent no broadcast.
C36_ChatBroadcast ==
    [][/\ ChatCastStep => OneBroadcast(sessions, chatSent', sessions')
       /\ \A id \in SessionIds :
             ChatJoinedStep(id)
               => LET b == BroadcastSends(chatSent')
                      others == SessionsWithout(sessions, id)
                  IN /\ Targets(b) = others
                     /\ SameData(b)
                     /\ Delivered(b) = Without(others, Thrown(b))
                     /\ sessions' = Without(sessions, Thrown(b))
       /\ \A id \in SessionIds :
             ChatEndStep(id)
               => LET first == SendsOfType(chatSent', "system")
                      second == SendsOfType(chatSent', "userList")
                      others == SessionsWithout(sessions, id)
                  IN /\ id \notin Range(sessions')
                     /\ chatSent' = first \o second
                     /\ \/ chatSent' = <<>> /\ sessions' = others
                        \/ /\ OneBroadcast(others, first, Without(others, Thrown(first)))
                           /\ OneBroadcast(Without(others, Thrown(first)), second, sessions')
       /\ nextSession' = nextSession
            => /\ Range(sessions') \subseteq Range(sessions)
               /\ \A i \in 1..Len(chatSent') :
                     chatSent'[i][2][1] # "messageHistory"
                       => chatSent'[i][1] \in Range(sessions)]_vars

\* C36 witness: a chat message has just been broadcast to three sessions; the
\* send to the second one threw, it alone was removed, and the third was
\* still delivered the message.
C36_Witness ==
    /\ Len(chatSent) = 3
    /\ \A i \in 1..3 : chatSent[i][2][1] = "message"
    /\ Targets(chatSent) = <<1, 2, 3>>
    /\ Thrown(chatSent) = {2}
    /\ sessions = <<1, 3>>

\* the join broadcast leaves out the joining session
C36_WitnessExcluded ==
    /\ chatResponse = <<"101">>
    /\ sessions = <<1, 2, 3>>
    /\ stage[3] = "listening"
    /\ Targets(BroadcastSends(chatSent)) = <<1, 2>>

====
